---- MODULE Spec2Model ----
(***************************************************************************)
(* Model of the two Lambda entry points that provision the pgvector        *)
(* extension / vector table:                                               *)
(*   src/lambdas/create-pgvector-extension/index.py  (header-driven)       *)
(*   src/lambdas/create_pgvector_extension/index.py  (secret-store-driven) *)
(*                                                                         *)
(* A Python str is a sequence of tokens.  A token is a TLA+ string: one    *)
(* character where the code inspects characters (table names, numbers),    *)
(* or a whole literal chunk of an f-string.  Concatenation is \o.          *)
(* An Optional[str] (the result of os.environ.get or dict.get) is a record *)
(* [some |-> BOOLEAN, val |-> str].                                        *)
(***************************************************************************)
EXTENDS Integers, Sequences, FiniteSets, TLC

VARIABLES
    entry,                 \* which operation runs: "validate", "check_env", "header", "secret"
    candidate,             \* argument of _validate_table_name
    valid,                 \* its result: "none" before the call, then TRUE / FALSE
    event,                 \* the Lambda event
    environ,               \* os.environ: key -> Optional[str]
    secret,                \* what the secret store holds for DB_SECRET_ARN
    fault,                 \* the external call that raised in this invocation, with its text
    pc,                    \* position inside the running handler
    table_name,            \* header handler local
    db_vars,               \* header handler local
    connection_string,     \* header handler local
    embedding_dimensions,  \* header handler local
    engine,                \* PGEngine handle: "none", "open" or "closed"
    conn,                  \* psycopg connection handle: "none", "open" or "closed"
    cur,                   \* psycopg cursor handle: "none", "open" or "closed"
    calls,                 \* collaborator invocations made so far, in order
    exc,                   \* the exception last raised inside the handler
    response,              \* the value the handler returned
    escaped,               \* the exception that left the handler
    trace                  \* stages of the pipeline run so far, in order, with their outcome

vars == <<entry, candidate, valid, event, environ, secret, fault, pc, table_name,
          db_vars, connection_string, embedding_dimensions, engine, conn, cur,
          calls, exc, response, escaped, trace>>

(***************************************************************************)
(* Optional values and Python truthiness.                                  *)
(***************************************************************************)
None == [some |-> FALSE, val |-> <<>>]

Some(s) == [some |-> TRUE, val |-> s]

\* `if value` / `not value` on an Optional[str]: None and "" are falsy.
Truthy(o) == o.some /\ o.val # <<>>

\* `needle in haystack` on strings: needle is a contiguous run of haystack.
Contains(haystack, needle) ==
    \E i \in 0..(Len(haystack) - Len(needle)) :
        \A j \in 1..Len(needle) : haystack[i + j] = needle[j]

(***************************************************************************)
(* Characters.                                                             *)
(***************************************************************************)
LowerLetters == << "a", "b", "c", "d", "e", "f", "g", "h", "i", "j", "k", "l", "m",
                   "n", "o", "p", "q", "r", "s", "t", "u", "v", "w", "x", "y", "z" >>

UpperLetters == << "A", "B", "C", "D", "E", "F", "G", "H", "I", "J", "K", "L", "M",
                   "N", "O", "P", "Q", "R", "S", "T", "U", "V", "W", "X", "Y", "Z" >>

DigitChars == << "0", "1", "2", "3", "4", "5", "6", "7", "8", "9" >>

Range(seq) == { seq[i] : i \in DOMAIN seq }

IsLetter(c) == c \in Range(LowerLetters) \cup Range(UpperLetters)

IsDigit(c) == c \in Range(DigitChars)

\* [a-zA-Z_]
IsHeadChar(c) == IsLetter(c) \/ c = "_"

\* [a-zA-Z0-9_]
IsTailChar(c) == IsLetter(c) \/ IsDigit(c) \/ c = "_"

\* str.lower() on one character
LowerChar(c) ==
    IF c \in Range(UpperLetters)
    THEN LowerLetters[CHOOSE i \in DOMAIN UpperLetters : UpperLetters[i] = c]
    ELSE c

\* str.lower()
Lower(s) == [i \in DOMAIN s |-> LowerChar(s[i])]

(***************************************************************************)
(* _validate_table_name                                                    *)
(***************************************************************************)
MaxNameLength == 63

reserved_keywords ==
    { <<"s","e","l","e","c","t">>, <<"f","r","o","m">>, <<"w","h","e","r","e">>,
      <<"i","n","s","e","r","t">>, <<"u","p","d","a","t","e">>, <<"d","e","l","e","t","e">>,
      <<"c","r","e","a","t","e">>, <<"d","r","o","p">>, <<"t","a","b","l","e">>,
      <<"i","n","d","e","x">>, <<"v","i","e","w">>, <<"s","c","h","e","m","a">>,
      <<"d","a","t","a","b","a","s","e">>, <<"u","s","e","r">>, <<"p","a","s","s","w","o","r","d">>,
      <<"h","o","s","t">>, <<"p","o","r","t">>, <<"n","a","m","e">>,
      <<"t","y","p","e">>, <<"s","i","z","e">>, <<"v","e","c","t","o","r">>,
      <<"e","x","t","e","n","s","i","o","n">>, <<"p","g","v","e","c","t","o","r">> }

\* re.match(r'^[a-zA-Z_][a-zA-Z0-9_]*$', s): the match starts at position 0, consumes
\* one head character and then n-1 tail characters; Python's `$` (no re.MULTILINE)
\* is satisfied at the end of the string and also just before a newline that is the
\* last character of the string.
IdentifierReMatch(s) ==
    /\ Len(s) >= 1
    /\ IsHeadChar(s[1])
    /\ \E n \in 1..Len(s) :
          /\ \A i \in 2..n : IsTailChar(s[i])
          /\ \/ n = Len(s)
             \/ n = Len(s) - 1 /\ s[Len(s)] = "\n"

_validate_table_name(name) ==
    /\ name # <<>>                              \* if not table_name: return False
    /\ ~ (Len(name) > MaxNameLength)            \* if len(table_name) > 63: return False
    /\ IdentifierReMatch(name)                  \* if not re.match(...): return False
    /\ Lower(name) \notin reserved_keywords     \* if table_name.lower() in reserved_keywords

(***************************************************************************)
(* Exceptions and results of functions that may raise.                     *)
(***************************************************************************)
NoExc == [type |-> "none", msg |-> <<>>]

Exc(t, m) == [type |-> t, msg |-> m]

Return(v) == [ok |-> TRUE, val |-> v, exc |-> NoExc]

Raise(t, m) == [ok |-> FALSE, val |-> <<>>, exc |-> Exc(t, m)]

(***************************************************************************)
(* The event and TABLE_NAME_HEADER_SCHEMA.                                 *)
(* event = [has_headers, header] where header is the JSON value under      *)
(* headers["x-table-name"]: absent, a string, or a value of another type.  *)
(***************************************************************************)
AbsentHeader == [kind |-> "absent", str |-> <<>>]

StringHeader(s) == [kind |-> "string", str |-> s]

NumberHeader == [kind |-> "number", str |-> <<>>]

\* "pattern": "^[a-zA-Z_][a-zA-Z0-9_]*$" of the JSON schema: `$` is the end of the
\* input, so every character of the value is matched.
SchemaPattern(s) ==
    /\ Len(s) >= 1
    /\ IsHeadChar(s[1])
    /\ \A i \in 2..Len(s) : IsTailChar(s[i])

\* validate_event_headers(event, TABLE_NAME_HEADER_SCHEMA) does not raise
SchemaValid(ev) ==
    /\ ev.has_headers                         \* "required": ["headers"]
    /\ ev.header.kind # "absent"              \* "required": ["x-table-name"]
    /\ ev.header.kind = "string"              \* "type": "string"
    /\ SchemaPattern(ev.header.str)           \* "pattern"
    /\ Len(ev.header.str) >= 1                \* "minLength": 1
    /\ Len(ev.header.str) <= MaxNameLength    \* "maxLength": 63

\* headers.get('x-table-name') on the parsed headers
HeadersGet(ev) ==
    IF ev.has_headers /\ ev.header.kind = "string" THEN Some(ev.header.str) ELSE None

(***************************************************************************)
(* _extract_table_name_from_headers                                        *)
(***************************************************************************)
SchemaDetail == << "data must match TABLE_NAME_HEADER_SCHEMA" >>

RequiredText == << "Table name header 'x-table-name' is required" >>

RuleDescription ==
    << "Table names must start with a letter or underscore, ",
       "contain only alphanumeric characters and underscores, be 1-63 characters long, ",
       "and not be a reserved keyword." >>

\* the message without the offending value
InvalidTableNameMsg_NoValue(name) == << "Invalid table name. " >> \o RuleDescription

\* f"Invalid table name '{table_name}'. Table names must ..."
InvalidTableNameMsg(name) == << "Invalid table name '" >> \o name \o << "'. " >> \o RuleDescription

\* except Exception as e: raise TableNameValidationError(f"Failed to extract ...: {e}")
WrapExtractError(m) == << "Failed to extract table name from headers: " >> \o m

_extract_table_name_from_headers(ev) ==
    IF ~ SchemaValid(ev)
    THEN Raise("SchemaValidationError", SchemaDetail)      \* except SchemaValidationError: raise
    ELSE LET name == HeadersGet(ev) IN
         IF ~ Truthy(name)
         THEN Raise("TableNameValidationError", WrapExtractError(RequiredText))
         ELSE IF ~ _validate_table_name(name.val)
              THEN Raise("TableNameValidationError",
                         WrapExtractError(InvalidTableNameMsg(name.val)))
              ELSE Return(name.val)

(***************************************************************************)
(* _check_database_env_vars                                                *)
(***************************************************************************)
\* the keys of db_vars, in insertion order
DbKeys == << "DB_NAME", "DB_USER", "DB_HOST", "DB_PORT", "DB_PASSWORD",
             "EMBEDDING_MODEL_DIMENSIONS", "PGVECTOR_DRIVER" >>

RECURSIVE JoinQuoted(_)
\* the inside of repr(list of str): 'a', 'b', 'c'
JoinQuoted(names) ==
    IF names = <<>> THEN <<>>
    ELSE IF Len(names) = 1 THEN << "'", names[1], "'" >>
    ELSE << "'", names[1], "'", ", " >> \o JoinQuoted(Tail(names))

\* f"{list_of_names}"
ListRepr(names) == << "[" >> \o JoinQuoted(names) \o << "]" >>

IsPresent(dbv, k) == Truthy(dbv[k])

\* [name for name, value in db_vars.items() if value]
present_vars(dbv) == SelectSeq(DbKeys, LAMBDA k : IsPresent(dbv, k))

\* [name for name, value in db_vars.items() if not value]
missing_vars(dbv) == SelectSeq(DbKeys, LAMBDA k : ~ IsPresent(dbv, k))

\* the message printing the first present variable together with its value
PartialMsg_Values(dbv) ==
    << "Some database credentials missing. Present: " >> \o ListRepr(present_vars(dbv))
        \o << " = " >> \o dbv[present_vars(dbv)[1]].val
        \o << ", Missing: " >> \o ListRepr(missing_vars(dbv))

PartialMsg(dbv) ==
    << "Some database credentials missing. Present: " >> \o ListRepr(present_vars(dbv))
        \o << ", Missing: " >> \o ListRepr(missing_vars(dbv))

\* the test with its first operand lost: `if missing_vars`
IsPartial_MissingOnly(dbv) == missing_vars(dbv) # <<>>

\* if present_vars and missing_vars
IsPartial(dbv) == present_vars(dbv) # <<>> /\ missing_vars(dbv) # <<>>

_check_database_env_vars(env) ==
    LET dbv == [k \in Range(DbKeys) |-> env[k]] IN      \* os.environ.get(k) per key
    IF IsPartial(dbv)
    THEN Raise("PartialDatabaseCredentialsError", PartialMsg(dbv))
    ELSE Return(dbv)

(***************************************************************************)
(* _connection_string_from_db_params                                       *)
(***************************************************************************)
\* str(x) inside an f-string for an Optional[str]
Str(o) == IF o.some THEN o.val ELSE << "None" >>

SupportedDriver == Some(<< "psycopg" >>)

_connection_string_from_db_params(driver, host, port, database, user, password) ==
    IF driver # SupportedDriver
    THEN Raise("NotImplementedError", << "Only psycopg3 driver is supported" >>)
    ELSE Return(<< "postgresql+" >> \o Str(driver) \o << "://" >> \o Str(user) \o << ":" >>
                \o Str(password) \o << "@" >> \o Str(host) \o << ":" >> \o Str(port)
                \o << "/" >> \o Str(database))

(***************************************************************************)
(* int(str): surrounding whitespace is stripped, one optional sign, then   *)
(* decimal digits.  (Digit-group underscores are not in the alphabet of    *)
(* the modelled values.)                                                   *)
(***************************************************************************)
IsSpace(c) == c \in { " ", "\n", "\t" }

RECURSIVE LStrip(_)
LStrip(s) == IF s # <<>> /\ IsSpace(s[1]) THEN LStrip(Tail(s)) ELSE s

RECURSIVE RStrip(_)
RStrip(s) == IF s # <<>> /\ IsSpace(s[Len(s)]) THEN RStrip(SubSeq(s, 1, Len(s) - 1)) ELSE s

DigitValue(c) == (CHOOSE i \in DOMAIN DigitChars : DigitChars[i] = c) - 1

\* the positional weight lost: the digits are added up
RECURSIVE DigitsValue_Sum(_)
DigitsValue_Sum(ds) ==
    IF ds = <<>> THEN 0
    ELSE DigitsValue_Sum(SubSeq(ds, 1, Len(ds) - 1)) + DigitValue(ds[Len(ds)])

RECURSIVE DigitsValue(_)
DigitsValue(ds) ==
    IF ds = <<>> THEN 0
    ELSE 10 * DigitsValue(SubSeq(ds, 1, Len(ds) - 1)) + DigitValue(ds[Len(ds)])

PyInt(o) ==
    IF ~ o.some
    THEN Raise("TypeError", << "int() argument must be a string, a bytes-like object or a real number, not 'NoneType'" >>)
    ELSE LET body   == RStrip(LStrip(o.val))
             signed == body # <<>> /\ body[1] \in { "+", "-" }
             digits == IF signed THEN Tail(body) ELSE body
         IN  IF digits # <<>> /\ \A i \in DOMAIN digits : IsDigit(digits[i])
             THEN Return(IF signed /\ body[1] = "-" THEN 0 - DigitsValue(digits)
                                                    ELSE DigitsValue(digits))
             ELSE Raise("ValueError",
                        << "invalid literal for int() with base 10: '" >> \o o.val \o << "'" >>)

(***************************************************************************)
(* Inputs.                                                                 *)
(***************************************************************************)
\* longest candidate enumerated character by character
MaxCandidateLen == 3

CandidateAlphabet == { "a", "Z", "_", "7", "-", "\n" }

RepeatChar(c, n) == [i \in 1..n |-> c]

Upper(s) == [i \in DOMAIN s |->
                IF s[i] \in Range(LowerLetters)
                THEN UpperLetters[CHOOSE k \in DOMAIN LowerLetters : LowerLetters[k] = s[i]]
                ELSE s[i]]

Capitalized(s) == [i \in DOMAIN s |-> IF i = 1 THEN Upper(s)[i] ELSE s[i]]

Candidates ==
    UNION { [1..n -> CandidateAlphabet] : n \in 0..MaxCandidateLen }
    \cup reserved_keywords
    \cup { Upper(w) : w \in reserved_keywords }
    \cup { Capitalized(w) : w \in reserved_keywords }
    \cup { w \o << "\n" >> : w \in reserved_keywords }
    \cup { w \o << "s" >> : w \in reserved_keywords }
    \cup { RepeatChar("a", MaxNameLength - 1), RepeatChar("a", MaxNameLength),
           RepeatChar("a", MaxNameLength + 1),
           RepeatChar("a", MaxNameLength - 1) \o << "\n" >> }

HeaderTableNames ==
    { << "d", "o", "c", "s" >>, << "_", "t", "1" >>,
      << "s", "e", "l", "e", "c", "t" >>, << "T", "a", "b", "l", "e" >>,
      << "1", "a" >>, << "a", "b", "\n" >>, <<>>, RepeatChar("a", MaxNameLength + 1) }

Events ==
    { [has_headers |-> FALSE, header |-> AbsentHeader],
      [has_headers |-> TRUE, header |-> AbsentHeader],
      [has_headers |-> TRUE, header |-> NumberHeader] }
    \cup { [has_headers |-> TRUE, header |-> StringHeader(s)] : s \in HeaderTableNames }

NoEvent == [has_headers |-> FALSE, header |-> AbsentHeader]

LegacyKeys == { "DB_SECRET_ARN", "VECTOR_DIMENTIONS" }

AllKeys == Range(DbKeys) \cup LegacyKeys

PasswordValue == << "hunter2" >>

\* the values a key may hold when it is set to something non-empty
ValuesOf(k) ==
    CASE k = "DB_NAME" -> { << "app" >> }
      [] k = "DB_USER" -> { << "u" >> }
      [] k = "DB_HOST" -> { << "db.example.com" >> }
      [] k = "DB_PORT" -> { << "5", "4", "3", "2" >> }
      [] k = "DB_PASSWORD" -> { PasswordValue }
      [] k = "EMBEDDING_MODEL_DIMENSIONS" -> { << "1", "5", "3", "6" >>, << "0", "8" >>, << "1", "x" >> }
      [] k = "PGVECTOR_DRIVER" -> { << "psycopg" >>, << "asyncpg" >> }
      [] k = "DB_SECRET_ARN" -> { << "arn:aws:secretsmanager:db" >> }
      [] k = "VECTOR_DIMENTIONS" -> { << "7", "6", "8" >> }

\* the keys enumerated with the empty string as a value too
EmptyableKeys == { "DB_NAME", "DB_PASSWORD", "EMBEDDING_MODEL_DIMENSIONS", "PGVECTOR_DRIVER",
                   "DB_SECRET_ARN", "VECTOR_DIMENTIONS" }

\* unset, set to the empty string, or set to a value
OptionsOf(k) ==
    { None } \cup (IF k \in EmptyableKeys THEN { Some(<<>>) } ELSE {})
             \cup { Some(v) : v \in ValuesOf(k) }

\* environments of the header-driven handler: the legacy keys are unset
HeaderEnvs ==
    { [k \in AllKeys |->
          CASE k = "DB_NAME" -> n
            [] k = "DB_USER" -> u
            [] k = "DB_HOST" -> h
            [] k = "DB_PORT" -> p
            [] k = "DB_PASSWORD" -> w
            [] k = "EMBEDDING_MODEL_DIMENSIONS" -> d
            [] k = "PGVECTOR_DRIVER" -> v
            [] OTHER -> None] :
        n \in OptionsOf("DB_NAME"), u \in OptionsOf("DB_USER"), h \in OptionsOf("DB_HOST"),
        p \in OptionsOf("DB_PORT"), w \in OptionsOf("DB_PASSWORD"),
        d \in OptionsOf("EMBEDDING_MODEL_DIMENSIONS"), v \in OptionsOf("PGVECTOR_DRIVER") }

\* environments of the secret-store handler: the keys it does not read are unset
LegacyEnvs ==
    { [k \in AllKeys |->
          CASE k = "DB_SECRET_ARN" -> a
            [] k = "VECTOR_DIMENTIONS" -> d
            [] k = "DB_HOST" -> h
            [] k = "DB_NAME" -> n
            [] OTHER -> None] :
        a \in OptionsOf("DB_SECRET_ARN"), d \in OptionsOf("VECTOR_DIMENTIONS"),
        h \in OptionsOf("DB_HOST"), n \in OptionsOf("DB_NAME") }

NoEnv == [k \in AllKeys |-> None]

\* the secret's JSON object: each of the two fields absent, empty or set
Secrets ==
    [ username : { None, Some(<<>>), Some(<< "u" >>) },
      password : { None, Some(<<>>), Some(PasswordValue) } ]

NoSecret == [username |-> None, password |-> None]

\* texts of the exceptions the database / secret-store libraries raise
ErrTexts ==
    { << "connection refused" >>,
      << "connection failed for postgresql://u:" >> \o PasswordValue \o << "@db.example.com" >> }

NoFault == [at |-> "none", text |-> <<>>]

NoDbVars == [k \in Range(DbKeys) |-> None]

NoResponse == [statusCode |-> 0, body |-> <<>>]

Response(code, text) == [statusCode |-> code, body |-> text]

\* the state of the locals and handles before any code has run
Fresh ==
    /\ fault = NoFault
    /\ table_name = <<>>
    /\ db_vars = NoDbVars
    /\ connection_string = <<>>
    /\ embedding_dimensions = 0
    /\ engine = "none"
    /\ conn = "none"
    /\ cur = "none"
    /\ calls = <<>>
    /\ exc = NoExc
    /\ response = NoResponse
    /\ escaped = NoExc
    /\ trace = <<>>
    /\ valid = "none"

Stage(name, ok) == [stage |-> name, ok |-> ok]

(***************************************************************************)
(* A call of _validate_table_name(candidate).                              *)
(***************************************************************************)
InitValidate ==
    /\ entry = "validate"
    /\ candidate \in Candidates
    /\ event = NoEvent
    /\ environ = NoEnv
    /\ secret = NoSecret
    /\ pc = "call"
    /\ Fresh

Validate ==
    /\ entry = "validate"
    /\ pc = "call"
    /\ valid' = IF _validate_table_name(candidate) THEN "True" ELSE "False"
    /\ pc' = "done"
    /\ UNCHANGED <<entry, candidate, event, environ, secret, fault, table_name, db_vars,
                   connection_string, embedding_dimensions, engine, conn, cur, calls,
                   exc, response, escaped, trace>>

SpecValidate == InitValidate /\ [][Validate]_vars

(***************************************************************************)
(* A call of _check_database_env_vars() under environ.                     *)
(***************************************************************************)
InitCheckEnv ==
    /\ entry = "check_env"
    /\ candidate = <<>>
    /\ event = NoEvent
    /\ environ \in HeaderEnvs
    /\ secret = NoSecret
    /\ pc = "call"
    /\ Fresh

CheckEnv ==
    /\ entry = "check_env"
    /\ pc = "call"
    /\ LET r == _check_database_env_vars(environ) IN
          /\ db_vars' = IF r.ok THEN r.val ELSE db_vars
          /\ exc' = r.exc
          /\ pc' = IF r.ok THEN "returned" ELSE "raised"
    /\ UNCHANGED <<entry, candidate, valid, event, environ, secret, fault, table_name,
                   connection_string, embedding_dimensions, engine, conn, cur, calls,
                   response, escaped, trace>>

SpecCheckEnv == InitCheckEnv /\ [][CheckEnv]_vars

(***************************************************************************)
(* The header-driven handler (create-pgvector-extension/index.py).         *)
(* pc walks the statements of the try block; a raise moves to "except".    *)
(***************************************************************************)
HeaderLocalsUnchanged == UNCHANGED <<entry, candidate, valid, event, environ, secret, conn, cur, escaped>>

\* table_name = _extract_table_name_from_headers(event)
H_Extract ==
    /\ entry = "header" /\ pc = "extract"
    /\ LET r == _extract_table_name_from_headers(event) IN
          /\ table_name' = IF r.ok THEN r.val ELSE table_name
          /\ exc' = IF r.ok THEN exc ELSE r.exc
          /\ pc' = IF r.ok THEN "check_env" ELSE "except"
          /\ trace' = Append(trace, Stage("extract", r.ok))
    /\ UNCHANGED <<db_vars, connection_string, embedding_dimensions, engine, calls,
                   response, fault>>
    /\ HeaderLocalsUnchanged

\* db_vars = _check_database_env_vars()
H_CheckEnv ==
    /\ entry = "header" /\ pc = "check_env"
    /\ LET r == _check_database_env_vars(environ) IN
          /\ db_vars' = IF r.ok THEN r.val ELSE db_vars
          /\ exc' = IF r.ok THEN exc ELSE r.exc
          /\ pc' = IF r.ok THEN "conn_string" ELSE "except"
          /\ trace' = Append(trace, Stage("reconcile", r.ok))
    /\ UNCHANGED <<table_name, connection_string, embedding_dimensions, engine, calls,
                   response, fault>>
    /\ HeaderLocalsUnchanged

\* connection_string = _connection_string_from_db_params(driver=..., ...)
H_ConnString ==
    /\ entry = "header" /\ pc = "conn_string"
    /\ LET r == _connection_string_from_db_params(
                    db_vars["PGVECTOR_DRIVER"], db_vars["DB_HOST"], db_vars["DB_PORT"],
                    db_vars["DB_NAME"], db_vars["DB_USER"], db_vars["DB_PASSWORD"]) IN
          /\ connection_string' = IF r.ok THEN r.val ELSE connection_string
          /\ exc' = IF r.ok THEN exc ELSE r.exc
          /\ pc' = IF r.ok THEN "engine" ELSE "except"
          /\ trace' = Append(trace, Stage("target", r.ok))
    /\ UNCHANGED <<table_name, db_vars, embedding_dimensions, engine, calls, response, fault>>
    /\ HeaderLocalsUnchanged

\* engine = PGEngine.from_connection_string(url=connection_string)
\* PGEngine is an external library: the call returns an engine or raises.
H_Engine ==
    /\ entry = "header" /\ pc = "engine"
    /\ \/ /\ engine' = "open"
          /\ pc' = "parse_dim"
          /\ trace' = Append(trace, Stage("engine", TRUE))
          /\ UNCHANGED <<exc, fault>>
       \/ \E t \in ErrTexts :
             /\ fault' = [at |-> "engine", text |-> t]
             /\ exc' = Exc("Exception", t)
             /\ pc' = "except"
             /\ trace' = Append(trace, Stage("engine", FALSE))
             /\ UNCHANGED engine
    /\ UNCHANGED <<table_name, db_vars, connection_string, embedding_dimensions, calls, response>>
    /\ HeaderLocalsUnchanged

\* a parse failure swallowed: the pipeline goes on with the default dimensionality
H_ParseDim_Swallow ==
    /\ entry = "header" /\ pc = "parse_dim"
    /\ LET r == PyInt(db_vars["EMBEDDING_MODEL_DIMENSIONS"]) IN
          /\ embedding_dimensions' = IF r.ok THEN r.val ELSE embedding_dimensions
          /\ exc' = exc
          /\ pc' = "init_table"
          /\ trace' = Append(trace, Stage("parse", r.ok))
    /\ UNCHANGED <<table_name, db_vars, connection_string, engine, calls, response, fault>>
    /\ HeaderLocalsUnchanged

\* embedding_dimensions = int(db_vars["EMBEDDING_MODEL_DIMENSIONS"])
H_ParseDim ==
    /\ entry = "header" /\ pc = "parse_dim"
    /\ LET r == PyInt(db_vars["EMBEDDING_MODEL_DIMENSIONS"]) IN
          /\ embedding_dimensions' = IF r.ok THEN r.val ELSE embedding_dimensions
          /\ exc' = IF r.ok THEN exc ELSE r.exc
          /\ pc' = IF r.ok THEN "init_table" ELSE "except"
          /\ trace' = Append(trace, Stage("parse", r.ok))
    /\ UNCHANGED <<table_name, db_vars, connection_string, engine, calls, response, fault>>
    /\ HeaderLocalsUnchanged

SuccessBody(name) ==
    << "Successfully created vector table '" >> \o name \o << "' with pgvector extension." >>

\* await engine.ainit_vectorstore_table(table_name=..., vector_size=...), and on its
\* success the return of the 200 response.  The call is made once; the database then
\* either carries it out or raises.
H_InitTable ==
    /\ entry = "header" /\ pc = "init_table"
    /\ calls' = Append(calls, [table_name |-> table_name, vector_size |-> embedding_dimensions])
    /\ \/ /\ response' = Response(200, SuccessBody(table_name))
          /\ pc' = "done"
          /\ trace' = Append(trace, Stage("call", TRUE))
          /\ UNCHANGED <<exc, fault>>
       \/ \E t \in ErrTexts :
             /\ fault' = [at |-> "init_table", text |-> t]
             /\ exc' = Exc("Exception", t)
             /\ pc' = "except"
             /\ trace' = Append(trace, Stage("call", FALSE))
             /\ UNCHANGED response
    /\ UNCHANGED <<table_name, db_vars, connection_string, embedding_dimensions, engine>>
    /\ HeaderLocalsUnchanged

GenericFailureBody == << "Failed to create vector table with pgvector extension." >>

\* NotImplementedError added to the credentials clause
HandlerExceptResponse_DriverAs400(e) ==
    IF e.type \in { "SchemaValidationError", "TableNameValidationError" }
    THEN Response(400, << "Validation error: " >> \o e.msg)
    ELSE IF e.type \in { "PartialDatabaseCredentialsError", "NotImplementedError" }
    THEN Response(400, << "Database credentials error: " >> \o e.msg)
    ELSE Response(500, GenericFailureBody)

\* the except clauses of handler, tried in order
HandlerExceptResponse(e) ==
    IF e.type \in { "SchemaValidationError", "TableNameValidationError" }
    THEN Response(400, << "Validation error: " >> \o e.msg)
    ELSE IF e.type = "PartialDatabaseCredentialsError"
    THEN Response(400, << "Database credentials error: " >> \o e.msg)
    ELSE Response(500, GenericFailureBody)            \* except Exception

\* the handler without its last clause, `except Exception`: the exception leaves it
H_Except_NoCatchAll ==
    /\ entry = "header" /\ pc = "except"
    /\ IF exc.type \in { "SchemaValidationError", "TableNameValidationError",
                         "PartialDatabaseCredentialsError" }
       THEN response' = HandlerExceptResponse(exc) /\ UNCHANGED escaped
       ELSE escaped' = exc /\ UNCHANGED response
    /\ pc' = "done"
    /\ UNCHANGED <<table_name, db_vars, connection_string, embedding_dimensions, engine,
                   calls, exc, fault, trace>>
    /\ UNCHANGED <<entry, candidate, valid, event, environ, secret, conn, cur>>

H_Except ==
    /\ entry = "header" /\ pc = "except"
    /\ response' = HandlerExceptResponse(exc)
    /\ pc' = "done"
    /\ UNCHANGED <<table_name, db_vars, connection_string, embedding_dimensions, engine,
                   calls, exc, fault, trace>>
    /\ HeaderLocalsUnchanged

(***************************************************************************)
(* The secret-store handler (create_pgvector_extension/index.py).          *)
(***************************************************************************)
LegacyLocalsUnchanged ==
    UNCHANGED <<entry, candidate, valid, event, environ, secret, table_name, db_vars,
                connection_string, embedding_dimensions, engine>>

\* the two checks in front of the try block
LegacyEnvCheck(env) ==
    IF ~ Truthy(env["DB_SECRET_ARN"])
    THEN Raise("ValueError", << "DB_SECRET_ARN environment variable not set." >>)
    ELSE IF ~ Truthy(env["VECTOR_DIMENTIONS"])
    THEN Raise("ValueError", << "VECTOR_DIMENTIONS environment variable not set." >>)
    ELSE Return(env["VECTOR_DIMENTIONS"].val)

\* db_secret_arn / vector_dimensions are read and checked; a raise here is outside
\* the try block and leaves the handler.
L_CheckEnvVars ==
    /\ entry = "secret" /\ pc = "l_env"
    /\ LET r == LegacyEnvCheck(environ) IN
          /\ escaped' = IF r.ok THEN escaped ELSE r.exc
          /\ pc' = IF r.ok THEN "l_secret" ELSE "done"
    /\ UNCHANGED <<conn, cur, calls, exc, response, fault, trace>>
    /\ LegacyLocalsUnchanged

\* secret = get_secret(db_secret_arn): boto3 returns the stored secret or raises
L_GetSecret ==
    /\ entry = "secret" /\ pc = "l_secret"
    /\ \/ /\ pc' = "l_params"
          /\ UNCHANGED <<exc, fault>>
       \/ \E t \in ErrTexts :
             /\ fault' = [at |-> "get_secret", text |-> t]
             /\ exc' = Exc("Exception", t)
             /\ pc' = "l_except"
    /\ UNCHANGED <<conn, cur, calls, response, escaped, trace>>
    /\ LegacyLocalsUnchanged

\* db_host .. db_password are gathered: secret['username'] / secret['password'] raise
\* KeyError for an absent field, then `if not all([...])` raises ValueError
LegacyParams(env, sec) ==
    IF ~ sec.username.some THEN Raise("KeyError", << "'username'" >>)
    ELSE IF ~ sec.password.some THEN Raise("KeyError", << "'password'" >>)
    ELSE IF ~ (Truthy(env["DB_HOST"]) /\ Truthy(env["DB_NAME"])
               /\ Truthy(sec.username) /\ Truthy(sec.password))
    THEN Raise("ValueError", << "Missing one or more database connection parameters." >>)
    ELSE Return(<<>>)

L_ReadParams ==
    /\ entry = "secret" /\ pc = "l_params"
    /\ LET r == LegacyParams(environ, secret) IN
          /\ exc' = IF r.ok THEN exc ELSE r.exc
          /\ pc' = IF r.ok THEN "l_connect" ELSE "l_except"
    /\ UNCHANGED <<conn, cur, calls, response, escaped, fault, trace>>
    /\ LegacyLocalsUnchanged

\* conn = psycopg.connect(...); cur = conn.cursor()
L_Connect ==
    /\ entry = "secret" /\ pc = "l_connect"
    /\ \/ /\ conn' = "open"
          /\ cur' = "open"
          /\ pc' = "l_execute"
          /\ UNCHANGED <<exc, fault>>
       \/ \E t \in ErrTexts :
             /\ fault' = [at |-> "connect", text |-> t]
             /\ exc' = Exc("Exception", t)
             /\ pc' = "l_except"
             /\ UNCHANGED <<conn, cur>>
    /\ UNCHANGED <<calls, response, escaped, trace>>
    /\ LegacyLocalsUnchanged

\* f"CREATE EXTENSION IF NOT EXISTS vector WITH (dim = {vector_dimensions});"
ExtensionSql(dims) ==
    << "CREATE EXTENSION IF NOT EXISTS vector WITH (dim = " >> \o dims \o << ");" >>

\* cur.execute(...)
L_Execute ==
    /\ entry = "secret" /\ pc = "l_execute"
    /\ calls' = Append(calls, [sql |-> ExtensionSql(environ["VECTOR_DIMENTIONS"].val)])
    /\ \/ /\ pc' = "l_commit"
          /\ UNCHANGED <<exc, fault>>
       \/ \E t \in ErrTexts :
             /\ fault' = [at |-> "execute", text |-> t]
             /\ exc' = Exc("Exception", t)
             /\ pc' = "l_except"
    /\ UNCHANGED <<conn, cur, response, escaped, trace>>
    /\ LegacyLocalsUnchanged

\* conn.commit()
L_Commit ==
    /\ entry = "secret" /\ pc = "l_commit"
    /\ \/ /\ pc' = "l_close"
          /\ UNCHANGED <<exc, fault>>
       \/ \E t \in ErrTexts :
             /\ fault' = [at |-> "commit", text |-> t]
             /\ exc' = Exc("Exception", t)
             /\ pc' = "l_except"
    /\ UNCHANGED <<conn, cur, calls, response, escaped, trace>>
    /\ LegacyLocalsUnchanged

\* json.dumps(text) of a str: the text between double quotes
JsonDumps(text) == << "\"" >> \o text \o << "\"" >>

LegacySuccessBody(dims) ==
    JsonDumps(<< "Vector extension with dimensions " >> \o dims \o << " created successfully!" >>)

\* cur.close(); conn.close(); return the 200 response
L_Close ==
    /\ entry = "secret" /\ pc = "l_close"
    /\ cur' = "closed"
    /\ conn' = "closed"
    /\ response' = Response(200, LegacySuccessBody(environ["VECTOR_DIMENTIONS"].val))
    /\ pc' = "done"
    /\ UNCHANGED <<calls, exc, escaped, fault, trace>>
    /\ LegacyLocalsUnchanged

\* except Exception as e: the body is json.dumps(f'Error creating vector extension: {e}')
LegacyExceptResponse(e) ==
    Response(500, JsonDumps(<< "Error creating vector extension: " >> \o e.msg))

L_Except ==
    /\ entry = "secret" /\ pc = "l_except"
    /\ response' = LegacyExceptResponse(exc)
    /\ pc' = "done"
    /\ UNCHANGED <<conn, cur, calls, exc, escaped, fault, trace>>
    /\ LegacyLocalsUnchanged

(***************************************************************************)
(* One invocation of either handler.                                       *)
(***************************************************************************)
Init ==
    /\ entry \in { "header", "secret" }
    /\ candidate = <<>>
    /\ IF entry = "header"
       THEN /\ event \in Events
            /\ environ \in HeaderEnvs
            /\ secret = NoSecret
            /\ pc = "extract"
       ELSE /\ event = NoEvent
            /\ environ \in LegacyEnvs
            /\ secret \in Secrets
            /\ pc = "l_env"
    /\ Fresh

Next ==
    \/ H_Extract \/ H_CheckEnv \/ H_ConnString \/ H_Engine \/ H_ParseDim
    \/ H_InitTable \/ H_Except
    \/ L_CheckEnvVars \/ L_GetSecret \/ L_ReadParams \/ L_Connect \/ L_Execute
    \/ L_Commit \/ L_Close \/ L_Except

Spec == Init /\ [][Next]_vars

(***************************************************************************)
(* Vocabulary of the properties.                                           *)
(***************************************************************************)
\* every character of s, the last one included, is an identifier character
WholeIdentifier(s) ==
    /\ s # <<>>
    /\ IsHeadChar(s[1])
    /\ \A i \in 2..Len(s) : IsTailChar(s[i])

\* a configuration key is set when the environment gives it a non-empty value
KeySet(k) == Truthy(environ[k])

SetKeys == { k \in Range(DbKeys) : KeySet(k) }

MissingKeys == Range(DbKeys) \ SetKeys

PartialEnv == SetKeys # {} /\ MissingKeys # {}

\* the request carries an x-table-name header that the schema and the validator accept
ValidRequest ==
    /\ SchemaValid(event)
    /\ WholeIdentifier(event.header.str)
    /\ Len(event.header.str) <= MaxNameLength
    /\ Lower(event.header.str) \notin reserved_keywords

PresentMarker == "Some database credentials missing. Present: "

MissingMarker == ", Missing: "

Positions(text, tok) == { i \in DOMAIN text : text[i] = tok }

\* the key names a text lists between its Present marker and its Missing marker
ListedPresent(text) ==
    { text[i] : i \in { j \in DOMAIN text :
                          /\ \E a \in Positions(text, PresentMarker) : a < j
                          /\ \E b \in Positions(text, MissingMarker) : j < b } }
        \cap Range(DbKeys)

\* the key names a text lists after its Missing marker
ListedMissing(text) ==
    { text[i] : i \in { j \in DOMAIN text :
                          \E b \in Positions(text, MissingMarker) : b < j } }
        \cap Range(DbKeys)

\* the punctuation of a printed list of names
ListPunctuation == { "[", "]", "'", ", " }

\* decimal digits of a natural number
RECURSIVE Decimal(_)
Decimal(n) ==
    IF n < 10 THEN << DigitChars[n + 1] >>
    ELSE Decimal(n \div 10) \o << DigitChars[(n % 10) + 1] >>

AllDigits(s) == s # <<>> /\ \A i \in DOMAIN s : IsDigit(s[i])

\* a digit string without its leading zeros (one digit is kept)
RECURSIVE Canonical(_)
Canonical(s) == IF Len(s) > 1 /\ s[1] = "0" THEN Canonical(Tail(s)) ELSE s

Pipeline == << "extract", "reconcile", "target", "engine", "parse", "call" >>

(***************************************************************************)
(* C1.  _validate_table_name returns true if and only if the candidate is  *)
(* non-empty, at most 63 characters long, made of a leading letter or      *)
(* underscore followed by letters, digits or underscores in every          *)
(* position including the last, and its lowercase form is not reserved.    *)
(***************************************************************************)
C1_ValidatorIffRules ==
    (entry = "validate" /\ pc = "done") =>
        ( valid = "True" <=>
            /\ candidate # <<>>
            /\ Len(candidate) <= MaxNameLength
            /\ WholeIdentifier(candidate)
            /\ Lower(candidate) \notin reserved_keywords )

UnsupportedDriverCase ==
    /\ entry = "header" /\ pc = "done"
    /\ ValidRequest
    /\ ~ PartialEnv
    /\ environ["PGVECTOR_DRIVER"] # Some(<< "psycopg" >>)

LegacyConfigMissing ==
    ~ Truthy(environ["DB_SECRET_ARN"]) \/ ~ Truthy(environ["VECTOR_DIMENTIONS"])

C5_HandleReleasedOnExit ==
    (pc = "done") => (conn # "open" /\ engine # "open")

(***************************************************************************)
(* C6.  A statusCode 500 response has a body that does not depend on the   *)
(* exception raised: it contains neither the exception's text nor a        *)
(* credential value, in either entry point.                                *)
(***************************************************************************)
C6_GenericBodyOn500 ==
    (pc = "done" /\ response.statusCode = 500) =>
        /\ ~ Contains(response.body, exc.msg)
        /\ \A t \in ErrTexts : ~ Contains(response.body, t)
        /\ ~ Contains(response.body, PasswordValue)

(***************************************************************************)
(* C7.  Header-driven handler: with a valid x-table-name header T, all     *)
(* seven keys set, driver 'psycopg', a dimensionality D made of decimal    *)
(* digits and no database call raising, the collaborator is invoked        *)
(* exactly once, with table_name = T and vector_size = the number whose    *)
(* decimal form is D (leading zeros aside), and the response has           *)
(* statusCode 200; a statusCode 200 response is returned only after such a *)
(* successful call.                                                        *)
(***************************************************************************)
HappyInputs ==
    /\ ValidRequest
    /\ MissingKeys = {}
    /\ environ["PGVECTOR_DRIVER"] = Some(<< "psycopg" >>)
    /\ AllDigits(environ["EMBEDDING_MODEL_DIMENSIONS"].val)

C7_SuccessIffOneCall ==
    (entry = "header" /\ pc = "done") =>
        /\ (HappyInputs /\ fault = NoFault) =>
              /\ Len(calls) = 1
              /\ calls[1].table_name = event.header.str
              /\ calls[1].vector_size >= 0
              /\ Decimal(calls[1].vector_size) = Canonical(environ["EMBEDDING_MODEL_DIMENSIONS"].val)
              /\ response.statusCode = 200
        /\ (response.statusCode = 200) =>
              /\ HappyInputs
              /\ fault = NoFault
              /\ Len(calls) = 1
              /\ trace[Len(trace)] = Stage("call", TRUE)

C7_Witness_Docs1536 ==
    /\ entry = "header" /\ pc = "done"
    /\ response.statusCode = 200
    /\ calls = << [table_name |-> << "d", "o", "c", "s" >>, vector_size |-> 1536] >>

====
